---- MODULE Spec2Model ----
(***************************************************************************)
(* Model of the contest problem-selection engine of contest-maker-150:     *)
(* ProblemService.SelectProblemsForContest, calculateDistribution and      *)
(* randomSelect (backend/internal/service/problem_service.go), with the    *)
(* repository query FindUnsolvedByUserAndDifficulty they depend on.        *)
(***************************************************************************)
EXTENDS Integers, Sequences, FiniteSets, TLC

\* ------------------------------------------------------------------------
\* Bounds of the model
\* ------------------------------------------------------------------------

\* Catalog of the general specification: problems per difficulty tier.
NumEasy == 1

NumMedium == 3

NumHard == 1

\* Largest requestedCount of the general specification.
MaxCount == 4

\* Largest requestedCount of the distribution specification.
MaxDistCount == 150

\* Raw outputs of the generator: Intn(n) reduces one of 0..MaxRand modulo n.
MaxRand == 1

\* ORDER BY RANDOM() yields every permutation of a pool of at most
\* MaxPermute rows; of a larger pool the ascending and the descending one.
MaxPermute == 2

\* Number of randomSelect calls that run concurrently on one ProblemService.
NumCalls == 2

\* Concurrent requests to the contest service.
NumRequests == 2

\* Contest rows ever inserted.
MaxContests == 2

\* Largest ProblemCount of a CreateContest request.
MaxProblemCount == 2

\* Solve records of one user for one problem.
MaxRecords == 2

\* ------------------------------------------------------------------------
\* Domain: difficulty tiers and problems
\* ------------------------------------------------------------------------

DifficultyEasy == "Easy"

DifficultyMedium == "Medium"

DifficultyHard == "Hard"

\* The slice the code iterates over, in this order.
difficulties == <<DifficultyEasy, DifficultyMedium, DifficultyHard>>

Difficulty == {DifficultyEasy, DifficultyMedium, DifficultyHard}

Weight(d) ==
    CASE d = DifficultyEasy -> 1
      [] d = DifficultyMedium -> 2
      [] d = DifficultyHard -> 3
      [] OTHER -> 0

ErrNone == "nil"

ErrNotEnoughProblems == "not enough unsolved problems available"

ErrFetch == "fetch failed"

\* A catalog with e Easy, m Medium and h Hard problems, identifiers 1..e+m+h.
MakeCatalog(e, m, h) ==
    {[id |-> i, difficulty |-> DifficultyEasy] : i \in 1..e}
    \cup {[id |-> i, difficulty |-> DifficultyMedium] : i \in (e + 1)..(e + m)}
    \cup {[id |-> i, difficulty |-> DifficultyHard] : i \in (e + m + 1)..(e + m + h)}

Range(s) == {s[i] : i \in 1..Len(s)}

\* ------------------------------------------------------------------------
\* calculateDistribution
\* ------------------------------------------------------------------------

\* A Go map read at a missing key yields 0: the map starts all-zero.
emptyDistribution == [d \in Difficulty |-> 0]

\* Variant: the "count >= 2" test of the first case written "count > 2".
baseDistribution_StrictMedium(c) ==
    IF c <= 3 THEN
        IF c > 2
        THEN [emptyDistribution EXCEPT ![DifficultyEasy] = c - 1,
                                       ![DifficultyMedium] = 1]
        ELSE [emptyDistribution EXCEPT ![DifficultyEasy] = c]
    ELSE IF c <= 5 THEN
        [emptyDistribution EXCEPT ![DifficultyEasy] = 2,
                                  ![DifficultyMedium] = 2,
                                  ![DifficultyHard] = c - 4]
    ELSE IF c <= 10 THEN
        [emptyDistribution EXCEPT ![DifficultyEasy] = (c * 3) \div 10,
                                  ![DifficultyMedium] = (c * 4) \div 10,
                                  ![DifficultyHard] =
                                      c - ((c * 3) \div 10) - ((c * 4) \div 10)]
    ELSE
        [emptyDistribution EXCEPT ![DifficultyEasy] = c \div 4,
                                  ![DifficultyMedium] = c \div 2,
                                  ![DifficultyHard] = c - (c \div 4) - (c \div 2)]

\* Variant: the percentages computed as count / 10 * 3 and count / 10 * 4,
\* dividing before multiplying.
baseDistribution_DivideFirst(c) ==
    IF c <= 3 THEN
        IF c >= 2
        THEN [emptyDistribution EXCEPT ![DifficultyEasy] = c - 1,
                                       ![DifficultyMedium] = 1]
        ELSE [emptyDistribution EXCEPT ![DifficultyEasy] = c]
    ELSE IF c <= 5 THEN
        [emptyDistribution EXCEPT ![DifficultyEasy] = 2,
                                  ![DifficultyMedium] = 2,
                                  ![DifficultyHard] = c - 4]
    ELSE IF c <= 10 THEN
        [emptyDistribution EXCEPT ![DifficultyEasy] = (c \div 10) * 3,
                                  ![DifficultyMedium] = (c \div 10) * 4,
                                  ![DifficultyHard] =
                                      c - ((c \div 10) * 3) - ((c \div 10) * 4)]
    ELSE
        [emptyDistribution EXCEPT ![DifficultyEasy] = c \div 4,
                                  ![DifficultyMedium] = c \div 2,
                                  ![DifficultyHard] = c - (c \div 4) - (c \div 2)]

\* The switch of calculateDistribution (integer division truncates).
baseDistribution(c) ==
    IF c <= 3 THEN
        IF c >= 2
        THEN [emptyDistribution EXCEPT ![DifficultyEasy] = c - 1,
                                       ![DifficultyMedium] = 1]
        ELSE [emptyDistribution EXCEPT ![DifficultyEasy] = c]
    ELSE IF c <= 5 THEN
        [emptyDistribution EXCEPT ![DifficultyEasy] = 2,
                                  ![DifficultyMedium] = 2,
                                  ![DifficultyHard] = c - 4]
    ELSE IF c <= 10 THEN
        [emptyDistribution EXCEPT ![DifficultyEasy] = (c * 3) \div 10,
                                  ![DifficultyMedium] = (c * 4) \div 10,
                                  ![DifficultyHard] =
                                      c - ((c * 3) \div 10) - ((c * 4) \div 10)]
    ELSE
        [emptyDistribution EXCEPT ![DifficultyEasy] = c \div 4,
                                  ![DifficultyMedium] = c \div 2,
                                  ![DifficultyHard] = c - (c \div 4) - (c \div 2)]

\* Variant: the minimum enforced from count 2 on.
ensureMinimum_FromTwo(c, dist) ==
    IF c >= 2
    THEN [d \in Difficulty |-> IF dist[d] = 0 THEN 1 ELSE dist[d]]
    ELSE dist

\* Variant: the minimum enforced only above count 3.
ensureMinimum_AboveThree(c, dist) ==
    IF c > 3
    THEN [d \in Difficulty |-> IF dist[d] = 0 THEN 1 ELSE dist[d]]
    ELSE dist

\* "Ensure at least one problem per difficulty if count allows".
ensureMinimum(c, dist) ==
    IF c >= 3
    THEN [d \in Difficulty |-> IF dist[d] = 0 THEN 1 ELSE dist[d]]
    ELSE dist

calculateDistribution(c) == ensureMinimum(c, baseDistribution(c))

Sum(dist) == dist[DifficultyEasy] + dist[DifficultyMedium] + dist[DifficultyHard]

\* ------------------------------------------------------------------------
\* Repository: FindUnsolvedByUserAndDifficulty
\* ------------------------------------------------------------------------

\* Variant: the query without its NOT IN (solved ids) condition.
UnsolvedRows_NoExclusion(cat, solved, diff) ==
    {p \in cat : p.difficulty = diff}

\* The rows of the query: id NOT IN (solved ids) AND difficulty = diff.
UnsolvedRows(cat, solved, diff) ==
    {p \in cat : p.id \notin solved /\ p.difficulty = diff}

RECURSIVE Ascending(_)
Ascending(S) ==
    IF S = {} THEN <<>>
    ELSE LET lo == CHOOSE p \in S : \A q \in S : p.id <= q.id
         IN <<lo>> \o Ascending(S \ {lo})

RECURSIVE Descending(_)
Descending(S) ==
    IF S = {} THEN <<>>
    ELSE LET hi == CHOOSE p \in S : \A q \in S : p.id >= q.id
         IN <<hi>> \o Descending(S \ {hi})

AllOrders(S) ==
    {f \in [1..Cardinality(S) -> S] :
        \A i, j \in 1..Cardinality(S) : i # j => f[i] # f[j]}

\* ORDER BY RANDOM(): the orders in which the rows can come back.
RandomOrders(S) ==
    IF Cardinality(S) <= MaxPermute
    THEN AllOrders(S)
    ELSE {Ascending(S), Descending(S)}

\* The lists a successful query can return.
FindUnsolvedByUserAndDifficulty(cat, solved, diff) ==
    RandomOrders(UnsolvedRows(cat, solved, diff))

\* ------------------------------------------------------------------------
\* randomSelect and the final sort
\* ------------------------------------------------------------------------

Swap(s, i, j) == [s EXCEPT ![i] = s[j], ![j] = s[i]]

\* s.rng.Intn(n): a value of 0..n-1, a raw output reduced modulo n.
Intn(n) == {r % n : r \in 0..MaxRand}

\* Variant: the swap partner drawn from the whole slice, not from i onward.
RECURSIVE partialShuffle_FromStart(_, _, _)
partialShuffle_FromStart(shuffled, i, n) ==
    IF i >= n THEN {SubSeq(shuffled, 1, n)}
    ELSE UNION {partialShuffle_FromStart(Swap(shuffled, i + 1, k + 1), i + 1, n) :
                    k \in Intn(Len(shuffled))}

\* The loop of randomSelect from iteration i (0-based, as in the code).
RECURSIVE partialShuffle(_, _, _)
partialShuffle(shuffled, i, n) ==
    IF i >= n THEN {SubSeq(shuffled, 1, n)}
    ELSE UNION {partialShuffle(Swap(shuffled, i + 1, i + k + 1), i + 1, n) :
                    k \in Intn(Len(shuffled) - i)}

\* Variant: n independent draws from the pool, with replacement.
randomSelect_WithReplacement(problems, n) ==
    IF n >= Len(problems) THEN {problems}
    ELSE [1..n -> Range(problems)]

\* The lists randomSelect(problems, n) can return.
randomSelect(problems, n) ==
    IF n >= Len(problems) THEN {problems}
    ELSE partialShuffle(problems, 0, n)

\* Variant: the comparison reversed.
less_Descending(a, b) == Weight(a.difficulty) > Weight(b.difficulty)

\* The comparison handed to sort.Slice.
less(a, b) == Weight(a.difficulty) < Weight(b.difficulty)

\* Variant: an element also moves past an equal one ("not less" taken for
\* "greater"), which reverses elements of equal weight.
RECURSIVE insertDown_Unstable(_, _)
insertDown_Unstable(data, j) ==
    IF j > 1 /\ ~less(data[j - 1], data[j])
    THEN insertDown_Unstable(Swap(data, j, j - 1), j - 1)
    ELSE data

RECURSIVE insertDown(_, _)
insertDown(data, j) ==
    IF j > 1 /\ less(data[j], data[j - 1])
    THEN insertDown(Swap(data, j, j - 1), j - 1)
    ELSE data

RECURSIVE insertionSortFrom(_, _)
insertionSortFrom(data, i) ==
    IF i > Len(data) THEN data
    ELSE insertionSortFrom(insertDown(data, i), i + 1)

\* sort.Slice: a slice of at most 12 elements is sorted by insertion; the
\* catalogs of this model keep every result within that length.
sortSlice(data) == insertionSortFrom(data, 2)

\* ------------------------------------------------------------------------
\* The selection loop body
\* ------------------------------------------------------------------------

\* needed := distribution[diff] + shortfall
neededFor(dist, diff, carry) == dist[diff] + carry

\* Variant: the deficit is dropped instead of carried.
nextShortfall_Dropped(available, needed) == 0

\* The shortfall after a tier: the deficit when the pool is too small, else 0.
nextShortfall(available, needed) ==
    IF Len(available) < needed THEN needed - Len(available) ELSE 0

\* Variant: a tier always contributes its whole pool.
tierSelections_WholePool(available, needed) == {available}

\* What a tier contributes: the whole pool when it is too small, else a draw.
tierSelections(available, needed) ==
    IF Len(available) < needed THEN {available}
    ELSE randomSelect(available, needed)

\* Variant: every under-filled list is refused, not only the empty one.
noProblems_AnyShortfall(selected, c) == Len(selected) < c

\* Variant: the empty-result check left out.
noProblems_Unchecked(selected, c) == FALSE

\* if len(selectedProblems) == 0 (inside len(selectedProblems) < count)
noProblems(selected, c) == Len(selected) < c /\ Len(selected) = 0

\* ------------------------------------------------------------------------
\* State
\* ------------------------------------------------------------------------

VARIABLES
    catalog,              \* the problems table
    submissions,          \* problem ids with a solve record of the user
    count,                \* the requested count of the invocation
    pc,                   \* position of SelectProblemsForContest
    worker,               \* position of each fetchProblems goroutine
    wg,                   \* the WaitGroup counter
    resultChan,           \* the buffered result channel
    closed,               \* whether resultChan has been closed
    problemsByDifficulty, \* the pools collected from the channel
    distribution,         \* the result of calculateDistribution
    tier,                 \* index into difficulties of the selection loop
    shortfall,            \* deficit carried into the next tier
    selectedProblems,     \* the list being assembled
    ret,                  \* the (problems, error) pair returned
    fetches,              \* per difficulty: repository calls made, and failure
    ctxDone,              \* whether the context passed in has been cancelled
    rngMu,                \* ProblemService.rngMu: 0, or the call that holds it
    sampler,              \* the concurrent randomSelect calls on the service
    contests,             \* the contests table with its contest_problems rows
    nextContestID,        \* the identifier the next inserted contest gets
    requests,             \* the requests running in the contest service
    acked,                \* problems whose marking as complete returned nil
    solveRecords,         \* the user's rows of the submissions table, per problem
    progressPc,           \* position of GetUserProgress
    countWorker,          \* position of each counting goroutine
    countChan,            \* the buffered channel of count results
    received,             \* results taken from the channel so far
    progress,             \* the UserProgress being filled in
    progressRet           \* the error GetUserProgress returned

vars == <<catalog, submissions, count, pc, worker, wg, resultChan, closed,
          problemsByDifficulty, distribution, tier, shortfall,
          selectedProblems, ret, fetches, ctxDone, rngMu, sampler,
          contests, nextContestID, requests, acked, solveRecords,
          progressPc, countWorker, countChan, received, progress, progressRet>>

samplerVars == <<rngMu, sampler>>

progressVars == <<progressPc, countWorker, countChan, received, progress,
                  progressRet>>

contestVars == <<contests, nextContestID, requests, acked, solveRecords>>

noPools == [d \in Difficulty |-> <<>>]

noReturn == [problems |-> <<>>, err |-> "pending"]

noFetches == [d \in Difficulty |-> [calls |-> 0, failed |-> FALSE]]

Calls == 1..NumCalls

\* A randomSelect call that has not started.
noCall == [pc |-> "idle", problems |-> <<>>, n |-> 0, shuffled |-> <<>>,
           i |-> 0, result |-> <<>>]

\* No randomSelect call is running and the mutex is free.
SamplerIdle ==
    /\ rngMu = 0
    /\ sampler = [k \in Calls |-> noCall]

Requests == 1..NumRequests

\* A request slot with no request in it.
noRequest == [op |-> "none", pc |-> "idle", count |-> 0, contest |-> 0,
              problem |-> 0, isCompleted |-> FALSE, problems |-> <<>>,
              err |-> "pending", acked |-> {}]

\* The submissions table that holds one row for each solved problem.
OneRecordEach(cat, solved) ==
    [p \in {q.id : q \in cat} |-> IF p \in solved THEN 1 ELSE 0]

\* An empty UserProgress.
noProgress == [EasySolved |-> 0, MediumSolved |-> 0, HardSolved |-> 0,
               TotalSolved |-> 0]

\* No GetUserProgress call is running.
ProgressIdle ==
    /\ progressPc = "idle"
    /\ countWorker = [d \in Difficulty |-> "idle"]
    /\ countChan = <<>>
    /\ received = 0
    /\ progress = noProgress
    /\ progressRet = "pending"

\* The contest service at start: no contest, no request running.
ContestIdle ==
    /\ ProgressIdle
    /\ contests = <<>>
    /\ nextContestID = 1
    /\ requests = [r \in Requests |-> noRequest]
    /\ acked = {}
    /\ solveRecords = OneRecordEach(catalog, submissions)

\* The state of one ProblemService before SelectProblemsForContest is called.
SelectionIdle(cat, solved) ==
    /\ catalog = cat
    /\ submissions = solved
    /\ count = 0
    /\ pc = "idle"
    /\ worker = [d \in Difficulty |-> "none"]
    /\ wg = 0
    /\ resultChan = <<>>
    /\ closed = FALSE
    /\ problemsByDifficulty = noPools
    /\ distribution = emptyDistribution
    /\ tier = 1
    /\ shortfall = 0
    /\ selectedProblems = <<>>
    /\ ret = noReturn
    /\ fetches = noFetches
    /\ ctxDone = FALSE
    /\ SamplerIdle

\* The state before any request.
Idle(cat, solved) ==
    /\ SelectionIdle(cat, solved)
    /\ ContestIdle

SmallCatalog == MakeCatalog(NumEasy, NumMedium, NumHard)

Init ==
    \E solved \in SUBSET {p.id : p \in SmallCatalog} :
        Idle(SmallCatalog, solved)

\* ------------------------------------------------------------------------
\* SelectProblemsForContest, step by step
\* ------------------------------------------------------------------------

\* The call with requested count c: make the channel, wg.Add(1) and
\* go fetchProblems(diff) for each difficulty, and start the goroutine that
\* waits and closes.
Launch(c) ==
    /\ pc = "idle"
    /\ count' = c
    /\ worker' = [d \in Difficulty |-> "running"]
    /\ wg' = Len(difficulties)
    /\ resultChan' = <<>>
    /\ closed' = FALSE
    /\ pc' = "collect"
    /\ UNCHANGED <<catalog, submissions, problemsByDifficulty, distribution,
                   tier, shortfall, selectedProblems, ret>>
    /\ fetches' = noFetches
    /\ UNCHANGED <<ctxDone, samplerVars, contestVars, progressVars>>

\* fetchProblems(diff): query the repository and send the result; the
\* channel has room for all three results, so the send never blocks.
FetchProblems(diff) ==
    /\ worker[diff] = "running"
    /\ \/ /\ \E rows \in FindUnsolvedByUserAndDifficulty(catalog, submissions, diff) :
                resultChan' = Append(resultChan,
                    [difficulty |-> diff, problems |-> rows, err |-> ErrNone])
          /\ fetches' = [fetches EXCEPT ![diff].calls = @ + 1]
       \/ /\ resultChan' = Append(resultChan,
                    [difficulty |-> diff, problems |-> <<>>, err |-> ErrFetch])
          /\ fetches' = [fetches EXCEPT ![diff].calls = @ + 1,
                                        ![diff].failed = TRUE]
    /\ worker' = [worker EXCEPT ![diff] = "sent"]
    /\ UNCHANGED <<catalog, submissions, count, pc, wg, closed,
                   problemsByDifficulty, distribution, tier, shortfall,
                   selectedProblems, ret>>
    /\ UNCHANGED <<ctxDone, samplerVars, contestVars, progressVars>>

\* Variant: the goroutine exits without calling wg.Done().
WorkerDone_NoDone(diff) ==
    /\ worker[diff] = "sent"
    /\ worker' = [worker EXCEPT ![diff] = "exited"]
    /\ UNCHANGED <<catalog, submissions, count, pc, wg, resultChan, closed,
                   problemsByDifficulty, distribution, tier, shortfall,
                   selectedProblems, ret>>
    /\ UNCHANGED <<fetches, ctxDone, samplerVars, contestVars, progressVars>>

\* The deferred wg.Done() of fetchProblems.
WorkerDone(diff) ==
    /\ worker[diff] = "sent"
    /\ wg' = wg - 1
    /\ worker' = [worker EXCEPT ![diff] = "exited"]
    /\ UNCHANGED <<catalog, submissions, count, pc, resultChan, closed,
                   problemsByDifficulty, distribution, tier, shortfall,
                   selectedProblems, ret>>
    /\ UNCHANGED <<fetches, ctxDone, samplerVars, contestVars, progressVars>>

\* Variant: the channel is closed without waiting for the WaitGroup.
CloseChannel_WithoutWait ==
    /\ pc # "idle"
    /\ ~closed
    /\ closed' = TRUE
    /\ UNCHANGED <<catalog, submissions, count, pc, worker, wg, resultChan,
                   problemsByDifficulty, distribution, tier, shortfall,
                   selectedProblems, ret>>
    /\ UNCHANGED <<fetches, ctxDone, samplerVars, contestVars, progressVars>>

\* wg.Wait(); close(resultChan)
CloseChannel ==
    /\ pc # "idle"
    /\ ~closed
    /\ wg = 0
    /\ closed' = TRUE
    /\ UNCHANGED <<catalog, submissions, count, pc, worker, wg, resultChan,
                   problemsByDifficulty, distribution, tier, shortfall,
                   selectedProblems, ret>>
    /\ UNCHANGED <<fetches, ctxDone, samplerVars, contestVars, progressVars>>

\* One iteration of "for result := range resultChan": a failed fetch is
\* logged and skipped, a successful one is stored under its difficulty.
Collect ==
    /\ pc = "collect"
    /\ resultChan # <<>>
    /\ LET result == Head(resultChan)
       IN problemsByDifficulty' =
            IF result.err # ErrNone
            THEN problemsByDifficulty
            ELSE [problemsByDifficulty EXCEPT
                    ![result.difficulty] = result.problems]
    /\ resultChan' = Tail(resultChan)
    /\ UNCHANGED <<catalog, submissions, count, pc, worker, wg, closed,
                   distribution, tier, shortfall, selectedProblems, ret>>
    /\ UNCHANGED <<fetches, ctxDone, samplerVars, contestVars, progressVars>>

\* The range loop ends when the channel is closed and drained; then
\* distribution := s.calculateDistribution(count); shortfall := 0.
Distribute ==
    /\ pc = "collect"
    /\ resultChan = <<>>
    /\ closed
    /\ distribution' = calculateDistribution(count)
    /\ selectedProblems' = <<>>
    /\ shortfall' = 0
    /\ tier' = 1
    /\ pc' = "select"
    /\ UNCHANGED <<catalog, submissions, count, worker, wg, resultChan,
                   closed, problemsByDifficulty, ret>>
    /\ UNCHANGED <<fetches, ctxDone, samplerVars, contestVars, progressVars>>

\* One iteration of the loop over Easy, Medium, Hard.
SelectTier ==
    /\ pc = "select"
    /\ tier <= Len(difficulties)
    /\ LET diff == difficulties[tier]
           needed == neededFor(distribution, diff, shortfall)
           available == problemsByDifficulty[diff]
       IN /\ \E selected \in tierSelections(available, needed) :
                selectedProblems' = selectedProblems \o selected
          /\ shortfall' = nextShortfall(available, needed)
    /\ tier' = tier + 1
    /\ UNCHANGED <<catalog, submissions, count, pc, worker, wg, resultChan,
                   closed, problemsByDifficulty, distribution, ret>>
    /\ UNCHANGED <<fetches, ctxDone, samplerVars, contestVars, progressVars>>

\* After the loop: ErrNotEnoughProblems for an empty list, otherwise sort
\* by difficulty weight and return the list.
Return ==
    /\ pc = "select"
    /\ tier > Len(difficulties)
    /\ ret' = IF noProblems(selectedProblems, count)
              THEN [problems |-> <<>>, err |-> ErrNotEnoughProblems]
              ELSE [problems |-> sortSlice(selectedProblems), err |-> ErrNone]
    /\ pc' = "done"
    /\ UNCHANGED <<catalog, submissions, count, worker, wg, resultChan,
                   closed, problemsByDifficulty, distribution, tier,
                   shortfall, selectedProblems>>
    /\ UNCHANGED <<fetches, ctxDone, samplerVars, contestVars, progressVars>>

\* The steps of an invocation after the call.
Run ==
    \/ \E diff \in Difficulty : FetchProblems(diff)
    \/ \E diff \in Difficulty : WorkerDone(diff)
    \/ CloseChannel
    \/ Collect
    \/ Distribute
    \/ SelectTier
    \/ Return

Next ==
    \/ \E c \in 1..MaxCount : Launch(c)
    \/ Run

Spec == Init /\ [][Next]_vars

\* ------------------------------------------------------------------------
\* Specification with the easy tier as the large one: the catalog of the
\* general specification with the sizes of Easy and Medium exchanged.
\* ------------------------------------------------------------------------

SurplusCatalog == MakeCatalog(NumMedium, NumEasy, NumHard)

InitSurplus ==
    \E solved \in SUBSET {p.id : p \in SurplusCatalog} :
        Idle(SurplusCatalog, solved)

SpecSurplus == InitSurplus /\ [][Next]_vars

\* ------------------------------------------------------------------------
\* Specification with cancellation: the caller's context can be cancelled
\* (or its deadline can pass) at any moment of an invocation. The goroutines
\* of the invocation are scheduled fairly; the repository query inside
\* fetchProblems takes no context and no timeout, so nothing makes it return.
\* ------------------------------------------------------------------------

\* The context passed to SelectProblemsForContest is cancelled. The function
\* hands ctx to the tracer only: no step of it reads ctx.Done().
Cancel ==
    /\ pc # "done"
    /\ ~ctxDone
    /\ ctxDone' = TRUE
    /\ UNCHANGED <<catalog, submissions, count, pc, worker, wg, resultChan,
                   closed, problemsByDifficulty, distribution, tier,
                   shortfall, selectedProblems, ret, fetches>>
    /\ UNCHANGED <<samplerVars, contestVars, progressVars>>

InitCancel == Idle(SmallCatalog, {})

NextCancel ==
    \/ Next
    \/ Cancel

SpecCancel ==
    /\ InitCancel
    /\ [][NextCancel]_vars
    /\ WF_vars(\E diff \in Difficulty : WorkerDone(diff))
    /\ WF_vars(CloseChannel)
    /\ WF_vars(Collect)
    /\ WF_vars(Distribute)
    /\ WF_vars(SelectTier)
    /\ WF_vars(Return)

\* ------------------------------------------------------------------------
\* Specification with fair scheduling and fetches that return: every
\* goroutine of the invocation that can take a step eventually takes it,
\* and each repository query comes back, with rows or with an error.
\* ------------------------------------------------------------------------

InitFair == Idle(SmallCatalog, {})

SpecFair ==
    /\ InitFair
    /\ [][Next]_vars
    /\ \A diff \in Difficulty : WF_vars(FetchProblems(diff))
    /\ \A diff \in Difficulty : WF_vars(WorkerDone(diff))
    /\ WF_vars(CloseChannel)
    /\ WF_vars(Collect)
    /\ WF_vars(Distribute)
    /\ WF_vars(SelectTier)
    /\ WF_vars(Return)

\* ------------------------------------------------------------------------
\* randomSelect step by step, called concurrently on one ProblemService
\* ------------------------------------------------------------------------

\* The pools handed to the calls: the first m Medium problems, m up to
\* NumMedium. Every call works on its own slice.
SamplerPools == {Ascending(MakeCatalog(0, m, 0)) : m \in 0..NumMedium}

\* Call k enters randomSelect(problems, n): it returns problems itself when
\* n >= len(problems), else it copies the slice and goes for the mutex.
randomSelectCall(k) ==
    /\ sampler[k].pc = "idle"
    /\ \E problems \in SamplerPools : \E n \in 0..Len(problems) :
        sampler' = [sampler EXCEPT ![k] =
            IF n >= Len(problems)
            THEN [noCall EXCEPT !.pc = "returned", !.problems = problems,
                                !.n = n, !.result = problems]
            ELSE [noCall EXCEPT !.pc = "lock", !.problems = problems,
                                !.n = n, !.shuffled = problems]]
    /\ UNCHANGED <<catalog, submissions, count, pc, worker, wg, resultChan,
                   closed, problemsByDifficulty, distribution, tier,
                   shortfall, selectedProblems, ret, fetches, ctxDone, rngMu>>
    /\ UNCHANGED <<contestVars, progressVars>>

\* Variant: the mutex is taken without waiting for it to be free.
randomSelectLock_NoWait(k) ==
    /\ sampler[k].pc = "lock"
    /\ rngMu' = k
    /\ sampler' = [sampler EXCEPT ![k].pc = "loop", ![k].i = 0]
    /\ UNCHANGED <<catalog, submissions, count, pc, worker, wg, resultChan,
                   closed, problemsByDifficulty, distribution, tier,
                   shortfall, selectedProblems, ret, fetches, ctxDone>>
    /\ UNCHANGED <<contestVars, progressVars>>

\* s.rngMu.Lock()
randomSelectLock(k) ==
    /\ sampler[k].pc = "lock"
    /\ rngMu = 0
    /\ rngMu' = k
    /\ sampler' = [sampler EXCEPT ![k].pc = "loop", ![k].i = 0]
    /\ UNCHANGED <<catalog, submissions, count, pc, worker, wg, resultChan,
                   closed, problemsByDifficulty, distribution, tier,
                   shortfall, selectedProblems, ret, fetches, ctxDone>>
    /\ UNCHANGED <<contestVars, progressVars>>

\* One iteration of the shuffle loop: j := i + s.rng.Intn(len(shuffled)-i)
\* and the swap of positions i and j. This is the access to the generator.
randomSelectDraw(k) ==
    /\ sampler[k].pc = "loop"
    /\ sampler[k].i < sampler[k].n
    /\ \E r \in Intn(Len(sampler[k].shuffled) - sampler[k].i) :
        sampler' = [sampler EXCEPT
            ![k].shuffled = Swap(@, sampler[k].i + 1, sampler[k].i + r + 1),
            ![k].i = @ + 1]
    /\ UNCHANGED <<catalog, submissions, count, pc, worker, wg, resultChan,
                   closed, problemsByDifficulty, distribution, tier,
                   shortfall, selectedProblems, ret, fetches, ctxDone, rngMu>>
    /\ UNCHANGED <<contestVars, progressVars>>

\* The loop is over: s.rngMu.Unlock(); return shuffled[:n]
randomSelectUnlock(k) ==
    /\ sampler[k].pc = "loop"
    /\ sampler[k].i >= sampler[k].n
    /\ rngMu' = 0
    /\ sampler' = [sampler EXCEPT
            ![k].pc = "returned",
            ![k].result = SubSeq(sampler[k].shuffled, 1, sampler[k].n)]
    /\ UNCHANGED <<catalog, submissions, count, pc, worker, wg, resultChan,
                   closed, problemsByDifficulty, distribution, tier,
                   shortfall, selectedProblems, ret, fetches, ctxDone>>
    /\ UNCHANGED <<contestVars, progressVars>>

InitRng == Idle(SmallCatalog, {})

NextRng ==
    \/ \E k \in Calls : randomSelectCall(k)
    \/ \E k \in Calls : randomSelectLock(k)
    \/ \E k \in Calls : randomSelectDraw(k)
    \/ \E k \in Calls : randomSelectUnlock(k)

SpecRng == InitRng /\ [][NextRng]_vars

\* ------------------------------------------------------------------------
\* The contest service: CreateContest, MarkProblemComplete, CompleteContest
\* and AbandonContest of one user, run as concurrent requests. Every
\* repository call is one step; a request keeps what it has read in its own
\* record. The contests table is a function from contest identifiers to
\* rows, a row carrying its contest_problems rows; "expired" says that the
\* clock has passed StartedAt + DurationMinutes.
\* ------------------------------------------------------------------------

ContestStatusActive == "active"

ContestStatusCompleted == "completed"

ContestStatusAbandoned == "abandoned"

ErrContestNotFound == "contest not found"

ErrContestNotActive == "contest is not active"

ErrContestExpired == "contest has expired"

ErrActiveContestExists == "user already has an active contest"

ErrProblemNotInContest == "problem not found in this contest"

ErrForbidden == "forbidden"

\* The user whose requests are followed, and another user.
Caller == "user"

Stranger == "other user"

\* An error of the database driver, passed on by a repository.
ErrDatabase == "database error"

ContestCatalog == MakeCatalog(1, 0, 0)

\* (c *Contest) IsExpired
IsExpired(row) == row.status = ContestStatusActive /\ row.expired

\* The rows FindActiveByUserID can return with First: any active row of
\* the user.
FindActiveByUserID(userID) ==
    {id \in DOMAIN contests : /\ contests[id].userID = userID
                              /\ contests[id].status = ContestStatusActive}

\* The rows of the submissions table, one pair per row.
SolveRows(records) ==
    UNION {{<<p, k>> : k \in 1..records[p]} : p \in DOMAIN records}

\* SELECT problem_id FROM submissions WHERE user_id = ?: the subquery of the
\* unsolved-pool query, and GetSolvedProblemIDs with its Distinct.
SolvedProblemIDs(records) == {row[1] : row \in SolveRows(records)}

\* The table after db.Save of the contest read earlier, its status set:
\* the row is updated, or inserted again if it has been deleted meanwhile.
Save(id, status) ==
    [i \in DOMAIN contests \cup {id} |->
        IF i # id THEN contests[i]
        ELSE IF id \in DOMAIN contests
             THEN [contests[id] EXCEPT !.status = status]
             ELSE [userID |-> Caller, status |-> status, expired |-> FALSE,
                   problems |-> <<>>]]

\* The table after db.Create of a contest row.
Insert(id, row) ==
    [i \in DOMAIN contests \cup {id} |-> IF i = id THEN row ELSE contests[i]]

\* The table after the rows of contest id are deleted.
Delete(id) == [i \in DOMAIN contests \ {id} |-> contests[i]]

\* Variant: positions counted from 0.
contestProblems_ZeroBased(problems) ==
    [i \in 1..Len(problems) |->
        [problem |-> problems[i].id, order |-> i - 1, isCompleted |-> FALSE]]

\* The contest_problems rows built from the selected problems.
contestProblems(problems) ==
    [i \in 1..Len(problems) |->
        [problem |-> problems[i].id, order |-> i, isCompleted |-> FALSE]]

\* The selection loop from tier t on, as a function of the fetched pools.
RECURSIVE selectLoop(_, _, _, _, _)
selectLoop(pools, dist, t, carry, selected) ==
    IF t > Len(difficulties) THEN {selected}
    ELSE LET diff == difficulties[t]
             needed == neededFor(dist, diff, carry)
             available == pools[diff]
         IN UNION {selectLoop(pools, dist, t + 1,
                              nextShortfall(available, needed), selected \o s) :
                       s \in tierSelections(available, needed)}

\* The (problems, error) pairs SelectProblemsForContest can return for the
\* given solve records; a fetch of "failed" contributes an empty pool.
SelectProblemsForContest(cat, solved, c, failed) ==
    LET PoolOf(d) == IF d \in failed THEN {<<>>}
                     ELSE FindUnsolvedByUserAndDifficulty(cat, solved, d)
        pools == {[d \in Difficulty |->
                      IF d = DifficultyEasy THEN e
                      ELSE IF d = DifficultyMedium THEN m ELSE h] :
                  e \in PoolOf(DifficultyEasy), m \in PoolOf(DifficultyMedium),
                  h \in PoolOf(DifficultyHard)}
    IN UNION {{IF noProblems(selected, c)
               THEN [problems |-> <<>>, err |-> ErrNotEnoughProblems]
               ELSE [problems |-> sortSlice(selected), err |-> ErrNone] :
                   selected \in selectLoop(f, calculateDistribution(c), 1, 0, <<>>)} :
              f \in pools}

\* The request of slot r returns err to its caller, with the contest's
\* problems when a contest has been created.
Returned(r, err) ==
    [noRequest EXCEPT !.op = requests[r].op, !.pc = "returned", !.err = err,
                      !.problems = IF err = ErrNone THEN requests[r].problems ELSE <<>>,
                      !.acked = requests[r].acked]

\* What the contest service leaves alone: the single invocation above.
selectionVars == <<catalog, count, pc, worker, wg, resultChan, closed,
                   problemsByDifficulty, distribution, tier, shortfall,
                   selectedProblems, ret, fetches, ctxDone>>

\* A CreateContest request with ProblemCount c arrives.
CreateContest(r, c) ==
    /\ requests[r].pc = "idle"
    /\ requests' = [requests EXCEPT ![r] =
            [noRequest EXCEPT !.op = "CreateContest", !.pc = "findActive",
                              !.count = c, !.acked = acked]]
    /\ UNCHANGED <<contests, nextContestID, acked, submissions, solveRecords>>
    /\ UNCHANGED <<selectionVars, samplerVars, progressVars>>

\* activeContest, err := s.contestRepo.FindActiveByUserID(userID) and the
\* branch on it: none, expired, or still running.
CreateFindActive(r) ==
    /\ requests[r].op = "CreateContest"
    /\ requests[r].pc = "findActive"
    /\ \/ /\ FindActiveByUserID(Caller) = {}
          /\ requests' = [requests EXCEPT ![r].pc = "select"]
       \/ \E id \in FindActiveByUserID(Caller) :
            requests' = [requests EXCEPT ![r] =
                IF IsExpired(contests[id])
                THEN [requests[r] EXCEPT !.pc = "autoComplete", !.contest = id]
                ELSE Returned(r, ErrActiveContestExists)]
       \/ requests' = [requests EXCEPT ![r] = Returned(r, ErrDatabase)]
    /\ UNCHANGED <<contests, nextContestID, acked, submissions, solveRecords>>
    /\ UNCHANGED <<selectionVars, samplerVars, progressVars>>

\* s.contestRepo.Update(activeContest) with Status completed; a failure is
\* logged and the creation goes on.
CreateAutoComplete(r) ==
    /\ requests[r].op = "CreateContest"
    /\ requests[r].pc = "autoComplete"
    /\ LET id == requests[r].contest
       IN \/ contests' = Save(id, ContestStatusCompleted)
          \/ UNCHANGED contests
    /\ requests' = [requests EXCEPT ![r].pc = "select"]
    /\ UNCHANGED <<nextContestID, acked, submissions, solveRecords>>
    /\ UNCHANGED <<selectionVars, samplerVars, progressVars>>

\* problems, err := s.problemService.SelectProblemsForContest(...)
CreateSelect(r) ==
    /\ requests[r].op = "CreateContest"
    /\ requests[r].pc = "select"
    /\ \E failed \in SUBSET Difficulty :
       \E res \in SelectProblemsForContest(catalog, SolvedProblemIDs(solveRecords),
                                           requests[r].count, failed) :
            requests' = [requests EXCEPT ![r] =
                IF res.err # ErrNone
                THEN Returned(r, res.err)
                ELSE [requests[r] EXCEPT !.pc = "create", !.problems = res.problems]]
    /\ UNCHANGED <<contests, nextContestID, acked, submissions, solveRecords>>
    /\ UNCHANGED <<selectionVars, samplerVars, progressVars>>

\* s.contestRepo.Create(contest) with Status active; the table takes
\* MaxContests rows, after which every insert fails.
CreateInsert(r) ==
    /\ requests[r].op = "CreateContest"
    /\ requests[r].pc = "create"
    /\ \/ /\ nextContestID <= MaxContests
          /\ contests' = Insert(nextContestID,
                [userID |-> Caller, status |-> ContestStatusActive,
                 expired |-> FALSE, problems |-> <<>>])
          /\ nextContestID' = nextContestID + 1
          /\ requests' = [requests EXCEPT ![r].pc = "addProblems",
                                          ![r].contest = nextContestID]
       \/ /\ requests' = [requests EXCEPT ![r] = Returned(r, ErrDatabase)]
          /\ UNCHANGED <<contests, nextContestID>>
    /\ UNCHANGED <<acked, submissions, solveRecords>>
    /\ UNCHANGED <<selectionVars, samplerVars, progressVars>>

\* s.contestRepo.AddProblems(contest.ID, contestProblems); on failure the
\* contest is deleted, the error of Delete being dropped.
CreateAddProblems(r) ==
    /\ requests[r].op = "CreateContest"
    /\ requests[r].pc = "addProblems"
    /\ LET id == requests[r].contest
       IN \/ /\ id \in DOMAIN contests
             /\ contests' = [contests EXCEPT
                    ![id].problems = contestProblems(requests[r].problems)]
             /\ requests' = [requests EXCEPT ![r] = Returned(r, ErrNone)]
          \/ /\ contests' = Delete(id)
             /\ requests' = [requests EXCEPT ![r] = Returned(r, ErrDatabase)]
          \/ /\ UNCHANGED contests
             /\ requests' = [requests EXCEPT ![r] = Returned(r, ErrDatabase)]
    /\ UNCHANGED <<nextContestID, acked, submissions, solveRecords>>
    /\ UNCHANGED <<selectionVars, samplerVars, progressVars>>

\* A MarkProblemComplete request arrives.
MarkProblemComplete(r, id, p, isCompleted) ==
    /\ requests[r].pc = "idle"
    /\ requests' = [requests EXCEPT ![r] =
            [noRequest EXCEPT !.op = "MarkProblemComplete", !.pc = "findByID",
                              !.contest = id, !.problem = p,
                              !.isCompleted = isCompleted]]
    /\ UNCHANGED <<contests, nextContestID, acked, submissions, solveRecords>>
    /\ UNCHANGED <<selectionVars, samplerVars, progressVars>>

\* A CompleteContest request arrives.
CompleteContest(r, id) ==
    /\ requests[r].pc = "idle"
    /\ requests' = [requests EXCEPT ![r] =
            [noRequest EXCEPT !.op = "CompleteContest", !.pc = "findByID",
                              !.contest = id]]
    /\ UNCHANGED <<contests, nextContestID, acked, submissions, solveRecords>>
    /\ UNCHANGED <<selectionVars, samplerVars, progressVars>>

\* An AbandonContest request arrives.
AbandonContest(r, id) ==
    /\ requests[r].pc = "idle"
    /\ requests' = [requests EXCEPT ![r] =
            [noRequest EXCEPT !.op = "AbandonContest", !.pc = "findByID",
                              !.contest = id]]
    /\ UNCHANGED <<contests, nextContestID, acked, submissions, solveRecords>>
    /\ UNCHANGED <<selectionVars, samplerVars, progressVars>>

\* Variant: the status of the row is checked before its owner.
FindByID_StatusFirst(r) ==
    /\ requests[r].pc = "findByID"
    /\ LET id == requests[r].contest
       IN requests' = [requests EXCEPT ![r] =
            IF id \notin DOMAIN contests THEN Returned(r, ErrContestNotFound)
            ELSE IF contests[id].status # ContestStatusActive
                 THEN Returned(r, ErrContestNotActive)
            ELSE IF contests[id].userID # Caller THEN Returned(r, ErrForbidden)
            ELSE IF requests[r].op = "MarkProblemComplete" /\ IsExpired(contests[id])
                 THEN Returned(r, ErrContestExpired)
            ELSE [requests[r] EXCEPT !.pc = "update"]]
    /\ UNCHANGED <<contests, nextContestID, acked, submissions, solveRecords>>
    /\ UNCHANGED <<selectionVars, samplerVars, progressVars>>

\* contest, err := s.contestRepo.FindByID(contestID) and the checks on the
\* row read, shared by the three operations on an existing contest.
FindByID(r) ==
    /\ requests[r].pc = "findByID"
    /\ LET id == requests[r].contest
       IN requests' = [requests EXCEPT ![r] =
            IF id \notin DOMAIN contests THEN Returned(r, ErrContestNotFound)
            ELSE IF contests[id].userID # Caller THEN Returned(r, ErrForbidden)
            ELSE IF contests[id].status # ContestStatusActive
                 THEN Returned(r, ErrContestNotActive)
            ELSE IF requests[r].op = "MarkProblemComplete" /\ IsExpired(contests[id])
                 THEN Returned(r, ErrContestExpired)
            ELSE [requests[r] EXCEPT !.pc = "update"]]
    /\ UNCHANGED <<contests, nextContestID, acked, submissions, solveRecords>>
    /\ UNCHANGED <<selectionVars, samplerVars, progressVars>>

\* Variant: un-marking a problem also deletes its solve records.
MarkUpdateStatus_Unsolve(r) ==
    /\ requests[r].op = "MarkProblemComplete"
    /\ requests[r].pc = "update"
    /\ LET id == requests[r].contest
           p == requests[r].problem
           rows == IF id \in DOMAIN contests
                   THEN {i \in DOMAIN contests[id].problems :
                             contests[id].problems[i].problem = p}
                   ELSE {}
       IN \/ /\ rows = {}
             /\ requests' = [requests EXCEPT ![r] = Returned(r, ErrProblemNotInContest)]
             /\ UNCHANGED contests
          \/ /\ rows # {}
             /\ contests' = [contests EXCEPT ![id].problems =
                    [i \in DOMAIN @ |->
                        IF i \in rows
                        THEN [@[i] EXCEPT !.isCompleted = requests[r].isCompleted]
                        ELSE @[i]]]
             /\ requests' = [requests EXCEPT ![r] =
                    IF requests[r].isCompleted
                    THEN [requests[r] EXCEPT !.pc = "findSubmission"]
                    ELSE Returned(r, ErrNone)]
          \/ /\ requests' = [requests EXCEPT ![r] = Returned(r, ErrDatabase)]
             /\ UNCHANGED contests
    /\ solveRecords' =
            IF requests'[r].pc = "returned" /\ requests'[r].err = ErrNone
            THEN [solveRecords EXCEPT ![requests[r].problem] = 0]
            ELSE solveRecords
    /\ submissions' = SolvedProblemIDs(solveRecords')
    /\ UNCHANGED <<nextContestID, acked>>
    /\ UNCHANGED <<selectionVars, samplerVars, progressVars>>

\* s.contestRepo.UpdateProblemStatus(contestID, problemID, isCompleted)
MarkUpdateStatus(r) ==
    /\ requests[r].op = "MarkProblemComplete"
    /\ requests[r].pc = "update"
    /\ LET id == requests[r].contest
           p == requests[r].problem
           rows == IF id \in DOMAIN contests
                   THEN {i \in DOMAIN contests[id].problems :
                             contests[id].problems[i].problem = p}
                   ELSE {}
       IN \/ /\ rows = {}
             /\ requests' = [requests EXCEPT ![r] = Returned(r, ErrProblemNotInContest)]
             /\ UNCHANGED contests
          \/ /\ rows # {}
             /\ contests' = [contests EXCEPT ![id].problems =
                    [i \in DOMAIN @ |->
                        IF i \in rows
                        THEN [@[i] EXCEPT !.isCompleted = requests[r].isCompleted]
                        ELSE @[i]]]
             /\ requests' = [requests EXCEPT ![r] =
                    IF requests[r].isCompleted
                    THEN [requests[r] EXCEPT !.pc = "findSubmission"]
                    ELSE Returned(r, ErrNone)]
          \/ /\ requests' = [requests EXCEPT ![r] = Returned(r, ErrDatabase)]
             /\ UNCHANGED contests
    /\ UNCHANGED <<nextContestID, acked, submissions, solveRecords>>
    /\ UNCHANGED <<selectionVars, samplerVars, progressVars>>

\* existing, err := s.subRepo.FindByUserAndProblem(userID, problemID); an
\* error is logged and leaves existing nil.
MarkFindSubmission(r) ==
    /\ requests[r].op = "MarkProblemComplete"
    /\ requests[r].pc = "findSubmission"
    /\ \/ /\ requests[r].problem \in SolvedProblemIDs(solveRecords)
          /\ requests' = [requests EXCEPT ![r] = Returned(r, ErrNone)]
          /\ acked' = acked \cup {requests[r].problem}
       \/ /\ requests[r].problem \notin SolvedProblemIDs(solveRecords)
          /\ requests' = [requests EXCEPT ![r].pc = "createSubmission"]
          /\ UNCHANGED acked
       \/ /\ requests' = [requests EXCEPT ![r].pc = "createSubmission"]
          /\ UNCHANGED acked
    /\ UNCHANGED <<contests, nextContestID, submissions, solveRecords>>
    /\ UNCHANGED <<selectionVars, samplerVars, progressVars>>

\* s.subRepo.Create(submission); a failure is logged, and the operation
\* returns nil either way.
MarkCreateSubmission(r) ==
    /\ requests[r].op = "MarkProblemComplete"
    /\ requests[r].pc = "createSubmission"
    /\ \/ /\ solveRecords[requests[r].problem] < MaxRecords
          /\ solveRecords' = [solveRecords EXCEPT ![requests[r].problem] = @ + 1]
       \/ UNCHANGED solveRecords
    /\ submissions' = SolvedProblemIDs(solveRecords')
    /\ requests' = [requests EXCEPT ![r] = Returned(r, ErrNone)]
    /\ acked' = acked \cup {requests[r].problem}
    /\ UNCHANGED <<contests, nextContestID>>
    /\ UNCHANGED <<selectionVars, samplerVars, progressVars>>

\* return s.contestRepo.Update(contest) of CompleteContest and
\* AbandonContest: the row read is saved with its new status.
EndContestUpdate(r) ==
    /\ requests[r].op \in {"CompleteContest", "AbandonContest"}
    /\ requests[r].pc = "update"
    /\ LET id == requests[r].contest
           status == IF requests[r].op = "CompleteContest"
                     THEN ContestStatusCompleted ELSE ContestStatusAbandoned
       IN \/ /\ contests' = Save(id, status)
             /\ requests' = [requests EXCEPT ![r] = Returned(r, ErrNone)]
          \/ /\ UNCHANGED contests
             /\ requests' = [requests EXCEPT ![r] = Returned(r, ErrDatabase)]
    /\ UNCHANGED <<nextContestID, acked, submissions, solveRecords>>
    /\ UNCHANGED <<selectionVars, samplerVars, progressVars>>

\* The caller has its answer; the slot is free for the next request.
Respond(r) ==
    /\ requests[r].pc = "returned"
    /\ requests' = [requests EXCEPT ![r] = noRequest]
    /\ UNCHANGED <<contests, nextContestID, acked, submissions, solveRecords>>
    /\ UNCHANGED <<selectionVars, samplerVars, progressVars>>

\* The clock passes the end time of contest id.
Expire(id) ==
    /\ id \in DOMAIN contests
    /\ contests[id].status = ContestStatusActive
    /\ ~contests[id].expired
    /\ contests' = [contests EXCEPT ![id].expired = TRUE]
    /\ UNCHANGED <<nextContestID, requests, acked, submissions, solveRecords>>
    /\ UNCHANGED <<selectionVars, samplerVars, progressVars>>

ContestIDs == 1..MaxContests

\* The contest rows ever inserted plus the creations under way.
Creations ==
    (nextContestID - 1)
    + Cardinality({r \in Requests : requests[r].op = "CreateContest"
                                     /\ requests[r].pc \in {"findActive", "autoComplete", "select", "create"}})

ProblemIDs == {p.id : p \in ContestCatalog}

\* The steps of the requests that are under way.
ContestStep ==
    \/ \E r \in Requests : CreateFindActive(r)
    \/ \E r \in Requests : CreateAutoComplete(r)
    \/ \E r \in Requests : CreateSelect(r)
    \/ \E r \in Requests : CreateInsert(r)
    \/ \E r \in Requests : CreateAddProblems(r)
    \/ \E r \in Requests : \E id \in ContestIDs : \E p \in ProblemIDs :
            \E isCompleted \in BOOLEAN : MarkProblemComplete(r, id, p, isCompleted)
    \/ \E r \in Requests : \E id \in ContestIDs : CompleteContest(r, id)
    \/ \E r \in Requests : \E id \in ContestIDs : AbandonContest(r, id)
    \/ \E r \in Requests : FindByID(r)
    \/ \E r \in Requests : MarkUpdateStatus(r)
    \/ \E r \in Requests : MarkFindSubmission(r)
    \/ \E r \in Requests : MarkCreateSubmission(r)
    \/ \E r \in Requests : EndContestUpdate(r)
    \/ \E r \in Requests : Respond(r)
    \/ \E id \in ContestIDs : Expire(id)

\* The clients send no further CreateContest request once MaxContests
\* creations are inserted or under way.
NextContest ==
    \/ \E r \in Requests : \E c \in 1..MaxProblemCount :
            Creations < MaxContests /\ CreateContest(r, c)
    \/ ContestStep

InitContest == Idle(ContestCatalog, {})

SpecContest == InitContest /\ [][NextContest]_vars

\* ------------------------------------------------------------------------
\* Specification of calculateDistribution alone: the invocation has joined
\* its fetches and is about to compute the distribution of any count.
\* ------------------------------------------------------------------------

InitDist ==
    /\ catalog = {}
    /\ submissions = {}
    /\ count \in 1..MaxDistCount
    /\ pc = "collect"
    /\ worker = [d \in Difficulty |-> "exited"]
    /\ wg = 0
    /\ resultChan = <<>>
    /\ closed = TRUE
    /\ problemsByDifficulty = noPools
    /\ distribution = emptyDistribution
    /\ tier = 1
    /\ shortfall = 0
    /\ selectedProblems = <<>>
    /\ ret = noReturn
    /\ fetches = [d \in Difficulty |-> [calls |-> 1, failed |-> FALSE]]
    /\ ctxDone = FALSE
    /\ SamplerIdle
    /\ ContestIdle

NextDist == Distribute

SpecDist == InitDist /\ [][NextDist]_vars

\* ------------------------------------------------------------------------
\* Specification of the carry-forward scenario: a user without solves, a
\* catalog of 1 Easy, 10 Medium and 10 Hard problems, 9 problems requested.
\* ------------------------------------------------------------------------

CarryCatalog == MakeCatalog(1, 10, 10)

CarryCounts == {9}

InitCarry == Idle(CarryCatalog, {})

NextCarry ==
    \/ \E c \in CarryCounts : Launch(c)
    \/ Run

SpecCarry == InitCarry /\ [][NextCarry]_vars

\* ------------------------------------------------------------------------
\* The contest service with its getters, one request at a time: the user's
\* requests come one after the other, against a catalog with a problem of
\* each difficulty, and a contest of another user may exist from the start.
\* ------------------------------------------------------------------------

\* A GetContestByID request arrives.
GetContestByID(r, id) ==
    /\ requests[r].pc = "idle"
    /\ requests' = [requests EXCEPT ![r] =
            [noRequest EXCEPT !.op = "GetContestByID", !.pc = "find",
                              !.contest = id]]
    /\ UNCHANGED <<contests, nextContestID, acked, submissions, solveRecords>>
    /\ UNCHANGED <<selectionVars, samplerVars, progressVars>>

\* A GetActiveContest request arrives.
GetActiveContest(r) ==
    /\ requests[r].pc = "idle"
    /\ requests' = [requests EXCEPT ![r] =
            [noRequest EXCEPT !.op = "GetActiveContest", !.pc = "find"]]
    /\ UNCHANGED <<contests, nextContestID, acked, submissions, solveRecords>>
    /\ UNCHANGED <<selectionVars, samplerVars, progressVars>>

\* The read of a getter, FindByIDWithProblems or FindActiveByUserID, and the
\* test of IsExpired on the contest read.
GetFind(r) ==
    /\ requests[r].op \in {"GetContestByID", "GetActiveContest"}
    /\ requests[r].pc = "find"
    /\ LET found == IF requests[r].op = "GetContestByID"
                    THEN {requests[r].contest} \cap DOMAIN contests
                    ELSE FindActiveByUserID(Caller)
       IN \/ /\ found = {}
             /\ requests' = [requests EXCEPT ![r] =
                    Returned(r, IF requests[r].op = "GetContestByID"
                                THEN ErrContestNotFound ELSE ErrNone)]
          \/ \E id \in found :
                requests' = [requests EXCEPT ![r] =
                    IF IsExpired(contests[id])
                    THEN [requests[r] EXCEPT !.pc = "autoComplete", !.contest = id]
                    ELSE Returned(r, ErrNone)]
          \/ requests' = [requests EXCEPT ![r] = Returned(r, ErrDatabase)]
    /\ UNCHANGED <<contests, nextContestID, acked, submissions, solveRecords>>
    /\ UNCHANGED <<selectionVars, samplerVars, progressVars>>

\* s.contestRepo.Update(contest) of a getter, with Status completed; a
\* failure is logged and the contest read is returned either way.
GetAutoComplete(r) ==
    /\ requests[r].op \in {"GetContestByID", "GetActiveContest"}
    /\ requests[r].pc = "autoComplete"
    /\ \/ contests' = Save(requests[r].contest, ContestStatusCompleted)
       \/ UNCHANGED contests
    /\ requests' = [requests EXCEPT ![r] = Returned(r, ErrNone)]
    /\ UNCHANGED <<nextContestID, acked, submissions, solveRecords>>
    /\ UNCHANGED <<selectionVars, samplerVars, progressVars>>

ServiceCatalog == MakeCatalog(1, 1, 0)

\* A slot that takes no request.
closedRequest == [noRequest EXCEPT !.pc = "closed"]

\* The active contest of the other user, holding every catalog problem.
StrangerContest ==
    [userID |-> Stranger, status |-> ContestStatusActive, expired |-> FALSE,
     problems |-> contestProblems(Ascending(ServiceCatalog))]

InitService ==
    /\ SelectionIdle(ServiceCatalog, {})
    /\ contests = <<StrangerContest>>
    /\ nextContestID = 2
    /\ requests = [r \in Requests |-> IF r = 1 THEN noRequest ELSE closedRequest]
    /\ acked = {}
    /\ solveRecords = OneRecordEach(catalog, submissions)
    /\ ProgressIdle

NextService ==
    \/ \E r \in Requests : \E c \in 1..MaxProblemCount : CreateContest(r, c)
    \/ ContestStep
    \/ \E r \in Requests : \E id \in ContestIDs : GetContestByID(r, id)
    \/ \E r \in Requests : GetActiveContest(r)
    \/ \E r \in Requests : GetFind(r)
    \/ \E r \in Requests : GetAutoComplete(r)

SpecService == InitService /\ [][NextService]_vars

\* ------------------------------------------------------------------------
\* The solved counts and GetUserProgress: three goroutines count the solved
\* problems of one difficulty each and send the result on a buffered channel;
\* the caller receives three results and fills in the progress.
\* ------------------------------------------------------------------------

\* SELECT COUNT(DISTINCT problem_id) FROM submissions WHERE user_id = ?
CountByUserID(records) ==
    Cardinality({row[1] : row \in SolveRows(records)})

\* Variant: the rows are counted without Distinct.
CountByUserAndDifficulty_AllRows(cat, records, d) ==
    Cardinality({row \in SolveRows(records) :
                    \E p \in cat : p.id = row[1] /\ p.difficulty = d})

\* SELECT COUNT(DISTINCT submissions.problem_id) FROM submissions JOIN
\* problems ... WHERE submissions.user_id = ? AND problems.difficulty = ?
CountByUserAndDifficulty(cat, records, d) ==
    Cardinality({row[1] : row \in
                    {x \in SolveRows(records) :
                        \E p \in cat : p.id = x[1] /\ p.difficulty = d}})

\* The call: the channel is made and one goroutine per difficulty started.
GetUserProgress ==
    /\ progressPc = "idle"
    /\ progressPc' = "collect"
    /\ countWorker' = [d \in Difficulty |-> "running"]
    /\ countChan' = <<>>
    /\ received' = 0
    /\ progress' = noProgress
    /\ progressRet' = "pending"
    /\ UNCHANGED <<submissions, selectionVars, samplerVars, contestVars>>

\* The goroutine of difficulty d: the count query, which may fail, and the
\* send of its result; the channel has room for every result.
CountQuery(d) ==
    /\ countWorker[d] = "running"
    /\ \/ /\ countChan' = Append(countChan,
                [difficulty |-> d,
                 count |-> CountByUserAndDifficulty(catalog, solveRecords, d),
                 err |-> ErrNone])
          /\ countWorker' = [countWorker EXCEPT ![d] = "counted"]
       \/ /\ countChan' = Append(countChan,
                [difficulty |-> d, count |-> 0, err |-> ErrDatabase])
          /\ countWorker' = [countWorker EXCEPT ![d] = "failed"]
    /\ UNCHANGED <<progressPc, received, progress, progressRet>>
    /\ UNCHANGED <<submissions, selectionVars, samplerVars, contestVars>>

\* One round of the fan-in loop: result := <-resultChan; a result with an
\* error is logged and skipped, another one sets the field of its difficulty.
ProgressCollect ==
    /\ progressPc = "collect"
    /\ received < Len(difficulties)
    /\ countChan # <<>>
    /\ LET result == Head(countChan)
       IN progress' =
            IF result.err # ErrNone THEN progress
            ELSE IF result.difficulty = DifficultyEasy
                 THEN [progress EXCEPT !.EasySolved = result.count]
            ELSE IF result.difficulty = DifficultyMedium
                 THEN [progress EXCEPT !.MediumSolved = result.count]
            ELSE [progress EXCEPT !.HardSolved = result.count]
    /\ countChan' = Tail(countChan)
    /\ received' = received + 1
    /\ UNCHANGED <<progressPc, countWorker, progressRet>>
    /\ UNCHANGED <<submissions, selectionVars, samplerVars, contestVars>>

\* After the loop: the total is summed and (progress, nil) returned.
ProgressReturn ==
    /\ progressPc = "collect"
    /\ received = Len(difficulties)
    /\ progress' = [progress EXCEPT !.TotalSolved =
            progress.EasySolved + progress.MediumSolved + progress.HardSolved]
    /\ progressRet' = ErrNone
    /\ progressPc' = "returned"
    /\ UNCHANGED <<countWorker, countChan, received>>
    /\ UNCHANGED <<submissions, selectionVars, samplerVars, contestVars>>

\* The caller has its answer.
ProgressRespond ==
    /\ progressPc = "returned"
    /\ progressPc' = "idle"
    /\ countWorker' = [d \in Difficulty |-> "idle"]
    /\ countChan' = <<>>
    /\ received' = 0
    /\ progress' = noProgress
    /\ progressRet' = "pending"
    /\ UNCHANGED <<submissions, selectionVars, samplerVars, contestVars>>

\* A catalog with one problem of each difficulty.
ProgressCatalog == MakeCatalog(1, 1, 1)

\* GetUserProgress of a user with any solve records, duplicates included.
InitProgress ==
    /\ \E records \in [{p.id : p \in ProgressCatalog} -> 0..MaxRecords] :
          /\ solveRecords = records
          /\ SelectionIdle(ProgressCatalog, SolvedProblemIDs(records))
    /\ contests = <<>>
    /\ nextContestID = 1
    /\ requests = [r \in Requests |-> closedRequest]
    /\ acked = {}
    /\ ProgressIdle

NextProgress ==
    \/ GetUserProgress
    \/ \E d \in Difficulty : CountQuery(d)
    \/ ProgressCollect
    \/ ProgressReturn
    \/ ProgressRespond

SpecProgress == InitProgress /\ [][NextProgress]_vars

\* ------------------------------------------------------------------------
\* Specification of concurrent marking: the user has an active contest with
\* every catalog problem and sends MarkProblemComplete requests for its
\* problems, several at a time.
\* ------------------------------------------------------------------------

\* The user's active contest.
OwnContest ==
    [userID |-> Caller, status |-> ContestStatusActive, expired |-> FALSE,
     problems |-> contestProblems(Ascending(ServiceCatalog))]

InitMarks ==
    /\ SelectionIdle(ServiceCatalog, {})
    /\ contests = <<OwnContest>>
    /\ nextContestID = 2
    /\ requests = [r \in Requests |-> noRequest]
    /\ acked = {}
    /\ solveRecords = OneRecordEach(catalog, submissions)
    /\ ProgressIdle

NextMarks ==
    \/ \E r \in Requests : \E p \in {q.id : q \in ServiceCatalog} :
         \E isCompleted \in BOOLEAN :
           MarkProblemComplete(r, Len(contests), p, isCompleted)
    \/ \E r \in Requests : FindByID(r)
    \/ \E r \in Requests : MarkUpdateStatus(r)
    \/ \E r \in Requests : MarkFindSubmission(r)
    \/ \E r \in Requests : MarkCreateSubmission(r)
    \/ \E r \in Requests : Respond(r)

SpecMarks == InitMarks /\ [][NextMarks]_vars

\* ------------------------------------------------------------------------
\* Specification of the end-to-end scenario: a user without solves and a
\* catalog of 45 Easy, 80 Medium and 25 Hard problems, so that every tier
\* can supply its share of every requested count.
\* ------------------------------------------------------------------------

AmpleCatalog == MakeCatalog(45, 80, 25)

AmpleCounts == 1..(MaxCount + 1)

InitAmple == Idle(AmpleCatalog, {})

NextAmple ==
    \/ \E c \in AmpleCounts : Launch(c)
    \/ Run

SpecAmple == InitAmple /\ [][NextAmple]_vars

\* ------------------------------------------------------------------------
\* Properties of calculateDistribution (checked under SpecDist)
\* ------------------------------------------------------------------------

\* The distribution of the requested count has been computed.
Planned == pc \in {"select", "done"}

NonNegative(dist) == \A d \in Difficulty : dist[d] >= 0

Triple(e, m, h) ==
    [d \in Difficulty |->
        CASE d = DifficultyEasy -> e
          [] d = DifficultyMedium -> m
          [] d = DifficultyHard -> h]

\* floor(num / den) for num >= 0 and den > 0, by its defining inequalities.
Floor(num, den) ==
    CHOOSE k \in 0..num : den * k <= num /\ num < den * (k + 1)

\* C1: for every requested count >= 1 the easy, medium and hard counts of
\* the computed distribution sum to the requested count exactly.
C1_SumEqualsCount ==
    Planned => Sum(distribution) = count

C4_ProportionalTiers ==
    Planned =>
        /\ (count \in 6..10 =>
                /\ distribution[DifficultyEasy] = Floor(3 * count, 10)
                /\ distribution[DifficultyMedium] = Floor(4 * count, 10)
                /\ distribution[DifficultyHard] =
                        count - Floor(3 * count, 10) - Floor(4 * count, 10))
        /\ (count > 10 =>
                /\ distribution[DifficultyEasy] = Floor(count, 4)
                /\ distribution[DifficultyMedium] = Floor(count, 2)
                /\ distribution[DifficultyHard] =
                        count - Floor(count, 4) - Floor(count, 2))

C4_Witness ==
    /\ Planned
    /\ count = 7
    /\ distribution = Triple(2, 2, 3)

\* C5: from count 3 on every tier is at least 1, a tier the switch left at
\* 0 being raised to exactly 1 and the others kept; for counts 1 and 2 no
\* tier is raised.
C5_MinimumPerTier ==
    Planned =>
        LET computed == baseDistribution(count)
        IN /\ (count >= 3 =>
                    \A d \in Difficulty :
                        /\ distribution[d] >= 1
                        /\ (computed[d] = 0 => distribution[d] = 1)
                        /\ (computed[d] # 0 => distribution[d] = computed[d]))
           /\ (count \in {1, 2} =>
                    /\ distribution = computed
                    /\ distribution[DifficultyHard] = 0)

C5_Witness ==
    /\ Planned
    /\ count = 3
    /\ baseDistribution(count)[DifficultyHard] = 0
    /\ distribution[DifficultyHard] = 1

\* ------------------------------------------------------------------------
\* Properties of SelectProblemsForContest (checked under Spec and SpecCarry)
\* ------------------------------------------------------------------------

Min(a, b) == IF a < b THEN a ELSE b

\* SelectProblemsForContest has returned a list and a nil error.
Succeeded == pc = "done" /\ ret.err = ErrNone

\* Number of problems of difficulty d in a list.
CountOf(list, d) == Cardinality({i \in 1..Len(list) : list[i].difficulty = d})

PoolSize(d) == Len(problemsByDifficulty[d])

\* C6: the returned list never contains the same problem identifier twice
\* (the identifiers of the catalog are pairwise distinct).
C6_NoDuplicates ==
    pc = "done" =>
        \A i, j \in 1..Len(ret.problems) :
            i # j => ret.problems[i].id # ret.problems[j].id

\* Some tier was drawn from at random: part of its pool, not all, returned.
C6_Witness ==
    /\ Succeeded
    /\ Len(ret.problems) >= 3
    /\ \E d \in Difficulty :
        /\ CountOf(ret.problems, d) >= 2
        /\ CountOf(ret.problems, d) < PoolSize(d)

\* C7: every returned problem belongs to the pool fetched for its own
\* difficulty, and no returned problem has a solve record of the user.
C7_OnlyUnsolvedFromOwnPool ==
    pc = "done" =>
        \A i \in 1..Len(ret.problems) :
            /\ ret.problems[i] \in
                    Range(problemsByDifficulty[ret.problems[i].difficulty])
            /\ ret.problems[i].id \notin submissions

\* A tier with a solved problem contributed to the returned list.
C7_Witness ==
    /\ Succeeded
    /\ \E p \in catalog :
        /\ p.id \in submissions
        /\ CountOf(ret.problems, p.difficulty) >= 1

\* C8: the difficulty weights of a returned non-empty list are
\* non-decreasing from the first element to the last.
C8_AscendingWeights ==
    pc = "done" =>
        \A i \in 1..(Len(ret.problems) - 1) :
            Weight(ret.problems[i].difficulty)
                <= Weight(ret.problems[i + 1].difficulty)

C8_Witness ==
    /\ Succeeded
    /\ \A d \in Difficulty : CountOf(ret.problems, d) >= 1

\* One iteration of the selection loop, as the claim describes it: the
\* tiers come in the order Easy, Medium, Hard, the tier contributes
\* min(pool size, needed) problems of its own difficulty, and it passes on
\* needed - pool size when the pool is smaller than needed, else 0.
CarryStep ==
    (pc = "select" /\ tier' = tier + 1) =>
        LET diff == <<DifficultyEasy, DifficultyMedium, DifficultyHard>>[tier]
            needed == distribution[diff] + shortfall
            taken == Min(PoolSize(diff), needed)
        IN /\ tier = 1 => shortfall = 0
           /\ Len(selectedProblems') = Len(selectedProblems) + taken
           /\ CountOf(selectedProblems', diff)
                    = CountOf(selectedProblems, diff) + taken
           /\ shortfall' = IF PoolSize(diff) < needed
                           THEN needed - PoolSize(diff)
                           ELSE 0

\* The scenario of the example: pools of 1 Easy, 10 Medium and 10 Hard
\* problems, 9 problems requested, the invocation returned.
CarryScenario ==
    /\ pc = "done"
    /\ count = 9
    /\ PoolSize(DifficultyEasy) = 1
    /\ PoolSize(DifficultyMedium) = 10
    /\ PoolSize(DifficultyHard) = 10

Composition(list) ==
    Triple(CountOf(list, DifficultyEasy), CountOf(list, DifficultyMedium),
           CountOf(list, DifficultyHard))

C10_FullExhaustion ==
    pc = "done" =>
        /\ (\A d \in Difficulty : PoolSize(d) = 0) =>
                (ret.err = ErrNotEnoughProblems /\ ret.problems = <<>>)
        /\ ~(ret.problems = <<>> /\ ret.err = ErrNone)

C10_Witness ==
    /\ pc = "done"
    /\ count >= 1
    /\ \A d \in Difficulty : PoolSize(d) = 0
    /\ ret.err = ErrNotEnoughProblems

\* ------------------------------------------------------------------------
\* Supply, fetch failures and the join (Spec and SpecSurplus)
\* ------------------------------------------------------------------------

\* C11: whenever at least one collected pool is non-empty the invocation
\* returns a non-empty list and a nil error, also when the list is shorter
\* than the requested count.
C11_PartialSupplyIsSuccess ==
    (pc = "done" /\ \E d \in Difficulty : PoolSize(d) > 0) =>
        (ret.err = ErrNone /\ Len(ret.problems) >= 1)

C11_Witness ==
    /\ Succeeded
    /\ Len(ret.problems) >= 1
    /\ Len(ret.problems) < count

\* C12: whenever fewer problems than requested are returned, every problem
\* of all three collected pools is in the returned list.
C12_PartialOnlyWhenExhausted ==
    (Succeeded /\ Len(ret.problems) < count) =>
        \A d \in Difficulty :
            Range(problemsByDifficulty[d]) \subseteq Range(ret.problems)

\* Some fetch of the invocation returned an error.
FetchFailed == \E d \in Difficulty : fetches[d].failed

\* C13: if the fetch of any tier fails, the invocation returns an error and
\* no list.
C13_FetchFailureFailsRequest ==
    (pc = "done" /\ FetchFailed) =>
        (ret.err # ErrNone /\ ret.problems = <<>>)

\* C14: every invocation makes exactly one fetch per tier, by three tasks
\* that run concurrently, and the distribution and sampling start only after
\* all three tasks have finished and their results have been collected.
C14_JoinBeforeSampling ==
    /\ \A d \in Difficulty :
        /\ fetches[d].calls <= 1
        /\ (fetches[d].calls = 1 <=> worker[d] \in {"sent", "exited"})
    /\ Planned =>
        /\ \A d \in Difficulty :
                fetches[d].calls = 1 /\ worker[d] = "exited"
        /\ wg = 0
        /\ closed
        /\ resultChan = <<>>

C14_Witness ==
    /\ pc = "select"
    /\ tier = 2
    /\ Len(selectedProblems) >= 1
    /\ \A d \in Difficulty : fetches[d].calls = 1

\* Position of problem p in a list without repetitions.
IndexIn(list, p) == CHOOSE i \in 1..Len(list) : list[i] = p

ErrCanceled == "context canceled"

\* A fetch of the invocation has not returned yet.
FetchOutstanding == \E d \in Difficulty : worker[d] = "running"

\* C15: once the context is cancelled while a fetch is outstanding, the
\* invocation returns, with the cancellation error; a fetch that never
\* completes cannot keep it waiting forever.
C15_CancellationEndsInvocation ==
    (ctxDone /\ FetchOutstanding) ~> (pc = "done" /\ ret.err = ErrCanceled)

\* ------------------------------------------------------------------------
\* The shared generator and the shuffle (SpecRng)
\* ------------------------------------------------------------------------

\* Call k is between Lock and Unlock, where the generator is read.
InCriticalSection(k) == sampler[k].pc = "loop"

NoRepeats(list) ==
    \A i, j \in 1..Len(list) : i # j => list[i].id # list[j].id

\* C16: no two concurrent calls access the shared generator at the same
\* time, every access is made by the holder of rngMu, and the result of
\* every call is free of duplicates.
C16_GeneratorUnderMutex ==
    /\ \A k1, k2 \in Calls :
        (InCriticalSection(k1) /\ InCriticalSection(k2)) => k1 = k2
    /\ \A k \in Calls : InCriticalSection(k) => rngMu = k
    /\ \A k \in Calls :
        sampler[k].pc = "returned" => NoRepeats(sampler[k].result)

\* One call has drawn and returned while another is drawing and a third
\* party would have to wait: two calls overlap in time.
C16_Witness ==
    \E k1, k2 \in Calls :
        /\ k1 # k2
        /\ sampler[k1].pc = "returned"
        /\ sampler[k1].n < Len(sampler[k1].problems)
        /\ Len(sampler[k1].result) >= 2
        /\ InCriticalSection(k2)
        /\ sampler[k2].i >= 1

\* The ordered selections of n distinct elements of a pool.
Selections(problems, n) ==
    {f \in [1..n -> Range(problems)] :
        \A i, j \in 1..n : i # j => f[i] # f[j]}

\* A step of the shuffle loop swaps position i with a position of i..m-1.
C18_SwapStep ==
    \A k \in Calls :
        (sampler[k].pc = "loop" /\ sampler'[k].i = sampler[k].i + 1) =>
            \E j \in sampler[k].i..(Len(sampler[k].shuffled) - 1) :
                sampler'[k].shuffled =
                    Swap(sampler[k].shuffled, sampler[k].i + 1, j + 1)

\* A call with n < m returns n distinct elements of its pool, an outcome of
\* randomSelect; and every ordered selection of n distinct elements is an
\* outcome of randomSelect (for pools the generator's outputs cover).
C18_Returned ==
    \A k \in Calls :
        (sampler[k].pc = "returned"
            /\ sampler[k].n < Len(sampler[k].problems)) =>
            /\ Len(sampler[k].result) = sampler[k].n
            /\ sampler[k].result \in
                    Selections(sampler[k].problems, sampler[k].n)
            /\ sampler[k].result \in
                    randomSelect(sampler[k].problems, sampler[k].n)
            /\ (Len(sampler[k].problems) <= MaxRand + 1 =>
                    Selections(sampler[k].problems, sampler[k].n)
                        \subseteq randomSelect(sampler[k].problems, sampler[k].n))

ActiveContests(userID) ==
    {id \in DOMAIN contests : /\ contests[id].userID = userID
                              /\ contests[id].status = ContestStatusActive}

\* C19: in every reachable state a user has at most one persisted contest
\* with status active, also when two CreateContest requests of the user run
\* concurrently.
C19_AtMostOneActive ==
    \A userID \in {Caller, Stranger} : Cardinality(ActiveContests(userID)) <= 1

\* ------------------------------------------------------------------------
\* C20: solved problems are never repeated
\* ------------------------------------------------------------------------

\* The request of slot r is a CreateContest that has returned a contest.
Created(r) ==
    /\ requests[r].op = "CreateContest"
    /\ requests[r].pc = "returned"
    /\ requests[r].err = ErrNone

\* C20: a contest returned by CreateContest contains no problem whose
\* marking as complete had returned success before that CreateContest
\* request arrived.
C20_SolvedNeverRepeated ==
    \A r \in Requests :
        Created(r) =>
            {p.id : p \in Range(requests[r].problems)} \cap requests[r].acked = {}

\* ------------------------------------------------------------------------
\* C27: the returned list is never longer than the requested count
\* ------------------------------------------------------------------------

\* C27: every list SelectProblemsForContest returns with a nil error holds
\* at most count problems.
C27_AtMostRequested == Succeeded => Len(ret.problems) <= count

\* ------------------------------------------------------------------------
\* C22: with ample supply the distribution is met exactly (SpecAmple)
\* ------------------------------------------------------------------------

\* Every collected pool holds at least the planned number of its tier.
AmpleSupply == \A d \in Difficulty : PoolSize(d) >= distribution[d]

\* The three fetches of the scenario brought back the whole catalog.
ScenarioPools ==
    /\ PoolSize(DifficultyEasy) = 45
    /\ PoolSize(DifficultyMedium) = 80
    /\ PoolSize(DifficultyHard) = 25

\* C22: when every tier's pool holds at least distribution[tier] problems
\* the returned list holds exactly distribution[tier] problems of each tier;
\* a request of 5 from pools of 45 Easy, 80 Medium and 25 Hard is planned as
\* easy=2, medium=2, hard=1 and returns 5 distinct problems in ascending
\* difficulty.
C22_AmpleSupplyMeetsDistribution ==
    /\ (pc = "done" /\ AmpleSupply) =>
            /\ ret.err = ErrNone
            /\ \A d \in Difficulty : CountOf(ret.problems, d) = distribution[d]
    /\ (pc = "done" /\ count = 5 /\ ScenarioPools) =>
            /\ distribution = Triple(2, 2, 1)
            /\ ret.err = ErrNone
            /\ Len(ret.problems) = 5
            /\ NoRepeats(ret.problems)
            /\ \A i \in 1..(Len(ret.problems) - 1) :
                    Weight(ret.problems[i].difficulty)
                        <= Weight(ret.problems[i + 1].difficulty)

C22_Witness ==
    /\ Succeeded
    /\ count = 5
    /\ ScenarioPools
    /\ Len(ret.problems) = 5

\* ------------------------------------------------------------------------
\* C30: the fan-out terminates without blocked or leaked tasks (SpecFair)
\* ------------------------------------------------------------------------

\* Results sent on the channel so far, and results taken from it.
Sent == Cardinality({d \in Difficulty : worker[d] \in {"sent", "exited"}})

Received == Sent - Len(resultChan)

\* The channel never holds more than its capacity, so no send blocks; it is
\* closed only when all three tasks have sent and exited; the selection
\* starts with exactly three results received.
C30_ChannelDiscipline ==
    /\ Len(resultChan) <= Len(difficulties)
    /\ closed => (Sent = Len(difficulties) /\ wg = 0
                    /\ \A d \in Difficulty : worker[d] = "exited")
    /\ Planned => (closed /\ Received = Len(difficulties))

\* A send happens on an open channel only, and a closed channel stays
\* closed: it is closed once.
C30_SendStep ==
    /\ Len(resultChan') > Len(resultChan) => ~closed
    /\ closed => closed'

\* C30: when each of the three fetches returns, every task sends its result
\* without blocking, the channel is closed once and only after the three
\* sends, the collector receives exactly three results, and the invocation
\* returns.
C30_FanOutTerminates ==
    /\ []C30_ChannelDiscipline
    /\ [][C30_SendStep]_vars
    /\ (pc = "collect") ~> (pc = "done")

C30_Witness ==
    /\ pc = "done"
    /\ closed
    /\ Received = Len(difficulties)
    /\ FetchFailed

\* ------------------------------------------------------------------------
\* C21: contest positions (SpecService)
\* ------------------------------------------------------------------------

DifficultyOf(id) == (CHOOSE p \in catalog : p.id = id).difficulty

\* The positions of a contest's rows are 1..n, each used once, and the
\* difficulty weight does not decrease with the position.
WellOrdered(rows) ==
    /\ {rows[i].order : i \in DOMAIN rows} = 1..Len(rows)
    /\ \A i, j \in DOMAIN rows :
        /\ i # j => rows[i].order # rows[j].order
        /\ rows[i].order < rows[j].order =>
                Weight(DifficultyOf(rows[i].problem))
                    <= Weight(DifficultyOf(rows[j].problem))

\* The step in which slot r's CreateContest stores its rows and returns.
CreatedBy(r) ==
    /\ requests[r].op = "CreateContest"
    /\ requests[r].pc = "addProblems"
    /\ requests'[r].pc = "returned"
    /\ requests'[r].err = ErrNone

C21_RowsAsReturned ==
    \A r \in Requests :
        CreatedBy(r) =>
            LET rows == contests'[requests[r].contest].problems
                list == requests[r].problems
            IN /\ Len(rows) = Len(list)
               /\ \A i \in 1..Len(list) :
                    /\ rows[i].order = i
                    /\ rows[i].problem = list[i].id
                    /\ rows[i].isCompleted = FALSE

\* C21: a contest created with n selected problems has rows whose Order
\* values are exactly 1..n, each used once, given in the order of the list
\* the selection returned, so the weight is non-decreasing in Order, and
\* every row starts with IsCompleted false.
C21_ContestPositions ==
    /\ [](\A id \in DOMAIN contests : WellOrdered(contests[id].problems))
    /\ [][C21_RowsAsReturned]_vars

C21_Witness ==
    \E id \in DOMAIN contests :
        /\ contests[id].userID = Caller
        /\ Len(contests[id].problems) = 2
        /\ contests[id].problems[2].order = 2

\* ------------------------------------------------------------------------
\* C23: solve records are append-only (SpecService)
\* ------------------------------------------------------------------------

\* No row of the submissions table disappears in a step.
RecordsKept ==
    /\ \A p \in DOMAIN solveRecords : solveRecords'[p] >= solveRecords[p]
    /\ SolvedProblemIDs(solveRecords) \subseteq SolvedProblemIDs(solveRecords')

\* Only the insert of MarkProblemComplete changes the table, by one row.
RecordsChangedByInsertOnly ==
    solveRecords' # solveRecords =>
        \E r \in Requests :
            /\ requests[r].op = "MarkProblemComplete"
            /\ requests[r].pc = "createSubmission"
            /\ requests[r].isCompleted
            /\ solveRecords' = [solveRecords EXCEPT ![requests[r].problem] = @ + 1]

\* C23: no operation of the service deletes or changes an existing solve
\* record, so the solved (user, problem) pairs only grow; un-marking a
\* problem leaves its solve record in place.
C23_AppendOnly == [][RecordsKept /\ RecordsChangedByInsertOnly]_vars

\* A problem of the user's contest is un-marked and still has its record.
C23_Witness ==
    \E id \in DOMAIN contests :
        /\ contests[id].userID = Caller
        /\ \E i \in DOMAIN contests[id].problems :
            /\ ~contests[id].problems[i].isCompleted
            /\ solveRecords[contests[id].problems[i].problem] >= 1

\* ---------------------------------------------------------------------
\* C28: MarkProblemComplete answers with the error of the first guard that
\* fails, in the order unknown contest, not the owner, not active, expired,
\* problem not in the contest; CompleteContest and AbandonContest answer a
\* stranger with ErrForbidden and a contest that is not active with
\* ErrContestNotActive; a request that ends in one of these errors changes
\* no completion flag, no contest and no solve record.

\* The operations on an existing contest.
ContestOperations == {"MarkProblemComplete", "CompleteContest", "AbandonContest"}

\* The error the guards owe request r on the tables as they are now.
FirstFailingGuard(r) ==
    LET id == requests[r].contest
    IN IF id \notin DOMAIN contests THEN ErrContestNotFound
       ELSE IF contests[id].userID # Caller THEN ErrForbidden
       ELSE IF contests[id].status # ContestStatusActive THEN ErrContestNotActive
       ELSE IF requests[r].op = "MarkProblemComplete" /\ IsExpired(contests[id])
            THEN ErrContestExpired
       ELSE ErrNone

\* Is the problem of request r one of the problems of its contest.
ProblemInContest(r) ==
    /\ requests[r].contest \in DOMAIN contests
    /\ \E i \in DOMAIN contests[requests[r].contest].problems :
           contests[requests[r].contest].problems[i].problem = requests[r].problem

\* The step of request r that reads the contest and checks it.
GuardStep(r) ==
    /\ requests[r].op \in ContestOperations
    /\ requests[r].pc = "findByID"
    /\ requests'[r] # requests[r]

\* The step of request r that updates the completion flag.
FlagStep(r) ==
    /\ requests[r].op = "MarkProblemComplete"
    /\ requests[r].pc = "update"
    /\ requests'[r] # requests[r]

\* Nothing persisted changes in the step.
TablesUnchanged == contests' = contests /\ solveRecords' = solveRecords

C29_StatusTerminal ==
    [][\A id \in DOMAIN contests :
          (contests[id].status # ContestStatusActive /\ id \in DOMAIN contests')
              => contests'[id].status = contests[id].status]_vars

\* ---------------------------------------------------------------------
\* C25: a CreateContest that returns an error leaves no new contest row
\* behind: the row it inserted, if any, is gone, and no other row appears.

C25_NoPartialContest ==
    [][\A r \in Requests :
          ( /\ requests[r].op = "CreateContest"
            /\ requests[r].pc # "returned"
            /\ requests'[r].pc = "returned"
            /\ requests'[r].err # ErrNone )
              => DOMAIN contests' \subseteq DOMAIN contests \ {requests[r].contest}]_vars

\* ---------------------------------------------------------------------
\* C24: solve records for a problem that already has one change nothing:
\* in every state, whether the marks came one after the other or at the
\* same time, the unsolved pools, the solved count of each difficulty and
\* the total solved count are those of the table with one record for each
\* solved problem.

\* What the queries answer on a submissions table.
QueryResults(records) ==
    [pools |-> [d \in Difficulty |->
                    UnsolvedRows(catalog, SolvedProblemIDs(records), d)],
     solved |-> [d \in Difficulty |->
                    CountByUserAndDifficulty(catalog, records, d)],
     total |-> CountByUserID(records)]

\* The table with one record for each solved problem.
OnceEach(records) ==
    [p \in DOMAIN records |-> IF records[p] > 0 THEN 1 ELSE 0]

C24_IdempotentExclusion ==
    QueryResults(solveRecords) = QueryResults(OnceEach(solveRecords))

\* A problem marked complete more than once has two solve records.
C24_Witness ==
    \E p \in DOMAIN solveRecords :
        /\ solveRecords[p] >= 2
        /\ p \in acked

\* ---------------------------------------------------------------------
\* C26: when the count query of a difficulty fails, GetUserProgress returns
\* an error; when none fails it returns nil, each field holds the count of
\* its difficulty and TotalSolved is their sum.

C26_ErrorFailsOperation ==
    progressPc = "returned" =>
        IF \E d \in Difficulty : countWorker[d] = "failed"
        THEN progressRet # ErrNone
        ELSE /\ progressRet = ErrNone
             /\ progress.EasySolved =
                    CountByUserAndDifficulty(catalog, solveRecords, DifficultyEasy)
             /\ progress.MediumSolved =
                    CountByUserAndDifficulty(catalog, solveRecords, DifficultyMedium)
             /\ progress.HardSolved =
                    CountByUserAndDifficulty(catalog, solveRecords, DifficultyHard)
             /\ progress.TotalSolved = progress.EasySolved
                    + progress.MediumSolved + progress.HardSolved

====
